---------------------------- MODULE Spec2Model ----------------------------
(***************************************************************************)
(* A model of the interactive session of TermSys (src/src/app.rs): the     *)
(* App struct, the run loop, the per-frame refresh and draw, the key and   *)
(* mouse handlers and the two kill paths.                                  *)
(*                                                                         *)
(* Text is a sequence of one-character strings.  A process is a record     *)
(*   [pid, name, user, cpu, mem]                                           *)
(* where cpu is the f32 CPU usage in hundredths of a percent and mem is    *)
(* the resident memory in bytes.  A snapshot is the sequence of processes  *)
(* in the iteration order of System::processes().                          *)
(***************************************************************************)
EXTENDS Integers, Sequences, FiniteSets, TLC

(***************************************************************************)
(* Text helpers.                                                           *)
(***************************************************************************)
UpperChars == <<"A","B","C","D","E","F","G","H","I","J","K","L","M",
                "N","O","P","Q","R","S","T","U","V","W","X","Y","Z">>

LowerChars == <<"a","b","c","d","e","f","g","h","i","j","k","l","m",
                "n","o","p","q","r","s","t","u","v","w","x","y","z">>

DigitChars == <<"0","1","2","3","4","5","6","7","8","9">>

\* a function on 1..n as a sequence (the same value, held as a tuple)
AsSeq(f) == SubSeq(f, 1, Len(f))

\* char::to_lowercase on the ASCII range
ToLowerChar(c) ==
    IF \E i \in 1..26 : UpperChars[i] = c
    THEN LowerChars[CHOOSE i \in 1..26 : UpperChars[i] = c]
    ELSE c

\* str::to_lowercase
ToLowercase(s) == AsSeq([i \in 1..Len(s) |-> ToLowerChar(s[i])])

\* str::contains(&str): the needle occurs as a contiguous substring
Contains(hay, needle) ==
    \E i \in 0..(Len(hay) - Len(needle)) :
        SubSeq(hay, i + 1, i + Len(needle)) = needle

IsDigit(c) == \E i \in 1..10 : DigitChars[i] = c

DigitVal(c) == (CHOOSE i \in 1..10 : DigitChars[i] = c) - 1

RECURSIVE NatToString(_)
\* Display of an unsigned integer
NatToString(n) ==
    IF n < 10 THEN <<DigitChars[n + 1]>>
    ELSE Append(NatToString(n \div 10), DigitChars[(n % 10) + 1])

\* Pid::to_string
PidToString(pid) == NatToString(pid)

\* f32::to_string (shortest representation that round-trips) of a value
\* given in hundredths: 0 -> "0", 250 -> "2.5", 254 -> "2.54"
F32ToString(c) ==
    IF c % 100 = 0 THEN NatToString(c \div 100)
    ELSE IF c % 10 = 0
         THEN NatToString(c \div 100) \o <<".">> \o NatToString((c % 100) \div 10)
         ELSE NatToString(c \div 100) \o <<".", DigitChars[((c % 100) \div 10) + 1],
                                             DigitChars[(c % 10) + 1]>>

\* format!("{:.1}%", cpu): one decimal, rounded to nearest.  The snapshots
\* of this model hold no value whose second decimal is 5.
FormatCpu(c) ==
    LET t == IF c % 10 >= 5 THEN (c \div 10) + 1 ELSE c \div 10
    IN  NatToString(t \div 10) \o <<".", DigitChars[(t % 10) + 1], "%">>

BytesPerMB == 1048576

\* format!("{:.1}", bytes as f64 / 1024.0 / 1024.0): one decimal, ties to even
FormatMem(bytes) ==
    LET q == (bytes * 10) \div BytesPerMB
        r == (bytes * 10) % BytesPerMB
        t == IF 2 * r > BytesPerMB \/ (2 * r = BytesPerMB /\ q % 2 = 1)
             THEN q + 1 ELSE q
    IN  NatToString(t \div 10) \o <<".", DigitChars[(t % 10) + 1]>>

\* str::replace('%', "")
StripPercent(s) == SelectSeq(s, LAMBDA c : c # "%")

RECURSIVE StringToNat(_)
StringToNat(s) ==
    IF Len(s) = 0 THEN 0
    ELSE StringToNat(SubSeq(s, 1, Len(s) - 1)) * 10 + DigitVal(s[Len(s)])

\* parse::<f32>().unwrap_or(0.0) of a cell "<digits>.<digit>", in tenths
ParseCpuCell(s) ==
    IF \E i \in 1..Len(s) : s[i] = "."
    THEN LET d == CHOOSE i \in 1..Len(s) : s[i] = "."
             whole == SubSeq(s, 1, d - 1)
             frac  == SubSeq(s, d + 1, Len(s))
         IN  IF Len(whole) > 0 /\ Len(frac) = 1
                /\ (\A i \in 1..Len(whole) : IsDigit(whole[i])) /\ IsDigit(frac[1])
             THEN StringToNat(whole) * 10 + DigitVal(frac[1])
             ELSE 0
    ELSE 0

\* slice::sort_by with the comparator b.partial_cmp(a): a stable sort,
\* descending by key; keys[i] is the key of seq[i]
StableSortDesc(seq, keys) ==
    LET n == Len(seq)
        rank(i) == Cardinality({j \in 1..n : keys[j] > keys[i]})
                   + Cardinality({j \in 1..n : j < i /\ keys[j] = keys[i]}) + 1
    IN  AsSeq([p \in 1..n |-> seq[CHOOSE i \in 1..n : rank(i) = p]])


(***************************************************************************)
(* The process projections.                                                *)
(***************************************************************************)
\* render_processes, the cells of one row: pid, name, user, CPU%, MemMB
RowCells(p) ==
    <<PidToString(p.pid), p.name, p.user, FormatCpu(p.cpu), FormatMem(p.mem)>>

\* a retain predicate that compares the cells as they are written
AnyCellContains_case_sensitive(cells, text) ==
    \E i \in 1..Len(cells) : Contains(cells[i], text)

\* the retain predicate shared by the three lists: some cell, lower-cased,
\* contains the lower-cased filter text
AnyCellContains(cells, text) ==
    LET needle == ToLowercase(text)
    IN  \E i \in 1..Len(cells) : Contains(ToLowercase(cells[i]), needle)

\* render_processes: the rows the table draws, as the processes they show
RenderList(procs, text) ==
    LET keys   == AsSeq([i \in 1..Len(procs) |->
                            ParseCpuCell(StripPercent(RowCells(procs[i])[4]))])
        sorted == StableSortDesc(procs, keys)
    IN  SelectSeq(sorted, LAMBDA p : AnyCellContains(RowCells(p), text))

\* prepare_kill_modal: the list the kill request indexes
KillList(procs, text) ==
    LET keys   == AsSeq([i \in 1..Len(procs) |-> procs[i].cpu])
        sorted == StableSortDesc(procs, keys)
    IN  SelectSeq(sorted, LAMBDA p :
            AnyCellContains(<<PidToString(p.pid), p.name, F32ToString(p.cpu)>>, text))

\* on_mouse_event, left button: the list a click indexes
ClickList(procs, text) ==
    LET keys   == AsSeq([i \in 1..Len(procs) |-> procs[i].cpu])
        sorted == StableSortDesc(procs, keys)
    IN  SelectSeq(sorted, LAMBDA p :
            AnyCellContains(<<PidToString(p.pid), p.name, F32ToString(p.cpu)>>, text))

Pids(list) == AsSeq([i \in 1..Len(list) |-> list[i].pid])

(***************************************************************************)
(* Option values: <<>> is None, <<v>> is Some(v).                          *)
(***************************************************************************)
None == <<>>

Some(v) == <<v>>

(***************************************************************************)
(* The session state.                                                      *)
(***************************************************************************)
VARIABLES
    running,            \* App.running
    processes,          \* App.system: the process snapshot, in iteration order
    cpu,                \* App.cpu: the CPU history, <<frame count, usage>>
    selected,           \* App.table_state.selected()
    textarea,           \* App.textarea: its first line
    search,             \* App.search
    kill_modal,         \* App.kill_modal
    kill_pid,           \* App.kill_pid
    kill_by_pid_modal,  \* App.kill_by_pid_modal
    kill_by_pid_input,  \* App.kill_by_pid_input
    process_list_area,  \* App.process_list_area
    details_panel,      \* App.details_panel
    pc,                 \* position in main and App::run: "main", "enable",
                        \* "start", "loop", "poll", "done", "restore", "exit"
    frame_count,        \* the terminal's frame counter, Frame::count()
    term,               \* the terminal's size, Frame::area()
    table_rows,         \* drawn: the pids of the rows given to the process table
    details_text,       \* drawn: the pid the details pane describes, or None
    panel_text,         \* drawn: the pid the details overlay describes, or None
    signals,            \* observed: the signals the last step delivered
    captured,           \* observed: the pid the pending kill request captured
    n_refresh_procs,    \* observed: calls of refresh_processes so far
    n_refresh_cpu,      \* observed: calls of refresh_cpu_all so far
    resized,            \* observed: the chart width has changed since the start
    raw_mode,           \* the terminal is in raw mode on the alternate screen
    mouse_capture,      \* the terminal reports mouse events
    result              \* what run or a failed step of main returned, or None

appVars == <<running, processes, cpu, selected, textarea, search, kill_modal,
             kill_pid, kill_by_pid_modal, kill_by_pid_input, process_list_area,
             details_panel>>

drawnVars == <<table_rows, details_text, panel_text>>

obsVars == <<signals, captured, n_refresh_procs, n_refresh_cpu, resized>>

mainVars == <<raw_mode, mouse_capture, result>>

vars == <<appVars, pc, frame_count, term, drawnVars, obsVars, mainVars>>

(***************************************************************************)
(* The environment: snapshots, terminal sizes, input events.               *)
(***************************************************************************)
Proc(pid, name, user, c, m) ==
    [pid |-> pid, name |-> name, user |-> user, cpu |-> c, mem |-> m]

ProcInit == Proc(1, <<"i","n","i","t">>, <<"r","o","o","t">>, 0, 0)

ProcBash == Proc(2, <<"b","a","s","h">>, <<"b","o","b">>, 251, 524288)

ProcZsh == Proc(3, <<"Z","s","h">>, <<>>, 254, 1572864)

ProcBashIdle == Proc(2, <<"b","a","s","h">>, <<"b","o","b">>, 0, 524288)

ProcInitBusy == Proc(1, <<"i","n","i","t">>, <<"r","o","o","t">>, 1000, 0)

\* what a refresh of the process table may find
Snapshots ==
    { <<ProcInit, ProcBash, ProcZsh>>,
      <<ProcBashIdle, ProcInitBusy>>,
      <<ProcZsh>> }

\* the value global_cpu_usage() reports
GlobalCpuVals == {42}

Rect(x, y, w, h) == [x |-> x, y |-> y, width |-> w, height |-> h]

KeyChar(c) == [code |-> "Char", ch |-> c, mods |-> "NONE"]

KeyCtrl(c) == [code |-> "Char", ch |-> c, mods |-> "CONTROL"]

KeyCode(name) == [code |-> name, ch |-> "", mods |-> "NONE"]

Mouse(kind, column, row) == [kind |-> kind, column |-> column, row |-> row]

(***************************************************************************)
(* One frame: App::run's draw closure and App::draw.                       *)
(***************************************************************************)
RefreshPeriod == 60

MaxChartPoints == 120

CpuBarHeight == 8

SecondPercent == 25

FooterHeight == 3

\* the block's top border and the table's header row
HeaderOffset == 2

\* usize::MAX, as the largest integer of the model
UsizeMax == 2147483647

Min(a, b) == IF a < b THEN a ELSE b

\* Layout::vertical([Length(8), Percentage(25), Fill(1), Length(3)]): the
\* third area, for the terminal heights of this model (multiples of 4 that
\* leave the Fill at least one row)
LayoutThird(area) ==
    LET second == (SecondPercent * area.height) \div 100
    IN  Rect(0, CpuBarHeight + second, area.width,
             area.height - CpuBarHeight - second - FooterHeight)

\* a refresh that waits for the first full period
RefreshDue_skip_first(count) == count > 0 /\ count % RefreshPeriod = 0

\* run: frame.count() % 60 == 0
RefreshDue(count) == count % RefreshPeriod = 0

\* a drain that drops the newest samples instead of the oldest
DrainCpu_keep_oldest(history, width) ==
    LET max_points == Min(width, MaxChartPoints)
    IN  IF Len(history) > max_points
        THEN SubSeq(history, 1, max_points)
        ELSE history

\* draw: the history after the drain of everything but the last max_points
DrainCpu(history, width) ==
    LET max_points == Min(width, MaxChartPoints)
    IN  IF Len(history) > max_points
        THEN SubSeq(history, Len(history) - max_points + 1, Len(history))
        ELSE history

\* render_process_details: the process at index `sel` of the snapshot
ProcessDetails(sel, procs) ==
    IF sel # None /\ sel[1] < Len(procs) THEN Some(procs[sel[1] + 1].pid) ELSE None

\* render_details_panel: the process at index `sel` of the snapshot
DetailsPanel(sel, procs) ==
    IF sel # None /\ sel[1] < Len(procs) THEN Some(procs[sel[1] + 1].pid) ELSE None

\* frame.render_stateful_widget(table, area, &mut self.table_state): the
\* table widget draws nothing in an area without an interior and otherwise
\* brings the selection into the range of its rows
TableRender(sel, nrows, area) ==
    IF area.width <= 2 \/ area.height <= 2 THEN sel
    ELSE IF nrows = 0 THEN None
    ELSE IF sel # None /\ sel[1] >= nrows THEN Some(nrows - 1)
    ELSE sel

TableDrawn(rows, area) ==
    IF area.width <= 2 \/ area.height <= 2 THEN <<>> ELSE Pids(rows)

\* the closure given to terminal.draw: refresh, sample, App::draw
DrawClosure ==
    /\ \E snap \in (IF RefreshDue(frame_count) THEN Snapshots ELSE {processes}),
          usage \in GlobalCpuVals :
          LET third == LayoutThird(term)
              rows  == RenderList(snap, textarea)
              sel   == TableRender(selected, Len(rows), third)
          IN  /\ processes' = snap
              /\ cpu' = DrainCpu(Append(cpu, <<frame_count, usage>>), term.width)
              /\ details_text' = ProcessDetails(selected, snap)
              /\ selected' = sel
              /\ table_rows' = TableDrawn(rows, third)
              /\ panel_text' = IF details_panel THEN DetailsPanel(sel, snap) ELSE None
              /\ process_list_area' = third
    /\ n_refresh_procs' = IF RefreshDue(frame_count)
                          THEN n_refresh_procs + 1 ELSE n_refresh_procs
    /\ n_refresh_cpu' = n_refresh_cpu + 1
    /\ signals' = <<>>
    /\ UNCHANGED <<running, textarea, search, kill_modal, kill_pid,
                   kill_by_pid_modal, kill_by_pid_input, details_panel,
                   term, captured, resized>>

\* one pass of the while loop's body up to handle_crossterm_events
Draw ==
    /\ pc = "loop"
    /\ running
    /\ DrawClosure
    /\ frame_count' = frame_count + 1
    /\ pc' = "poll"
    /\ UNCHANGED mainVars

(***************************************************************************)
(* The kill paths.                                                         *)
(***************************************************************************)
Half == 65536

RECURSIVE U32Fold(_, _, _, _)
\* the checked accumulation of str::parse::<u32>, on 16-bit halves:
\* None on overflow, else Some(<<high half, low half>>)
U32Fold(s, i, hi, lo) ==
    IF i > Len(s) THEN Some(<<hi, lo>>)
    ELSE LET lo10 == lo * 10 + DigitVal(s[i])
             hi10 == hi * 10 + (lo10 \div Half)
         IN  IF hi10 >= Half THEN None
             ELSE U32Fold(s, i + 1, hi10, lo10 % Half)

RECURSIVE U32FoldWrapping(_, _, _, _)
U32FoldWrapping(s, i, hi, lo) ==
    IF i > Len(s) THEN Some(<<hi, lo>>)
    ELSE LET lo10 == lo * 10 + DigitVal(s[i])
             hi10 == hi * 10 + (lo10 \div Half)
         IN  U32FoldWrapping(s, i + 1, hi10 % Half, lo10 % Half)

\* a parse that wraps around instead of failing on overflow
ParseU32_wrapping(s) ==
    IF Len(s) = 0 \/ \E i \in 1..Len(s) : ~IsDigit(s[i]) THEN None
    ELSE U32FoldWrapping(s, 1, 0, 0)

\* self.kill_by_pid_input.parse::<u32>()
ParseU32(s) ==
    IF Len(s) = 0 \/ \E i \in 1..Len(s) : ~IsDigit(s[i]) THEN None
    ELSE U32Fold(s, 1, 0, 0)

\* self.system.process(Pid::from_u32(n)), n given by its halves
ProcessOf(procs, halves) ==
    SelectSeq(procs, LAMBDA p : halves[1] = 0 /\ halves[2] = p.pid)

Delivered(procs, sig, ok) ==
    [i \in 1..Len(procs) |-> [pid |-> procs[i].pid, sig |-> sig, ok |-> ok]]

\* send_signal that re-resolves the target from the selected table row
send_signal_reresolve(sig) ==
    LET filtered == RenderList(processes, textarea)
    IN  /\ \E ok \in BOOLEAN :
              signals' = IF selected # None /\ selected[1] < Len(filtered)
                         THEN Delivered(<<filtered[selected[1] + 1]>>, sig, ok)
                         ELSE <<>>
        /\ kill_modal' = FALSE
        /\ kill_pid' = None
        /\ captured' = None
        /\ UNCHANGED <<running, processes, cpu, selected, textarea, search,
                       kill_by_pid_modal, kill_by_pid_input, process_list_area,
                       details_panel>>

\* send_signal that closes the overlay and forgets to clear the target
send_signal_keep(sig) ==
    /\ \E ok \in BOOLEAN :
          signals' = IF kill_pid = None THEN <<>>
                     ELSE Delivered(SelectSeq(processes,
                                       LAMBDA p : p.pid = kill_pid[1]), sig, ok)
    /\ kill_modal' = FALSE
    /\ UNCHANGED <<running, processes, cpu, selected, textarea, search,
                   kill_pid, captured, kill_by_pid_modal, kill_by_pid_input,
                   process_list_area, details_panel>>

\* send_signal
send_signal(sig) ==
    /\ \E ok \in BOOLEAN :
          signals' = IF kill_pid = None THEN <<>>
                     ELSE Delivered(SelectSeq(processes,
                                       LAMBDA p : p.pid = kill_pid[1]), sig, ok)
    /\ kill_modal' = FALSE
    /\ kill_pid' = None
    /\ captured' = None
    /\ UNCHANGED <<running, processes, cpu, selected, textarea, search,
                   kill_by_pid_modal, kill_by_pid_input, process_list_area,
                   details_panel>>

\* try_kill_by_pid that asks the process to terminate
try_kill_by_pid_graceful(ok) ==
    LET parsed == ParseU32(kill_by_pid_input)
    IN  IF parsed = None THEN <<>>
        ELSE Delivered(ProcessOf(processes, parsed[1]), "Term", ok)

\* try_kill_by_pid: what it delivers
try_kill_by_pid(ok) ==
    LET parsed == ParseU32(kill_by_pid_input)
    IN  IF parsed = None THEN <<>>
        ELSE Delivered(ProcessOf(processes, parsed[1]), "Kill", ok)

\* prepare_kill_modal that opens the overlay whatever the Selection is
prepare_kill_modal_always_opens ==
    LET filtered == KillList(processes, textarea)
    IN  /\ kill_modal' = TRUE
        /\ IF selected # None /\ selected[1] < Len(filtered)
           THEN /\ kill_pid' = Some(filtered[selected[1] + 1].pid)
                /\ captured' = Some(filtered[selected[1] + 1].pid)
           ELSE UNCHANGED <<kill_pid, captured>>
        /\ signals' = <<>>
        /\ UNCHANGED <<running, processes, cpu, selected, textarea, search,
                       kill_by_pid_modal, kill_by_pid_input, process_list_area,
                       details_panel>>

\* prepare_kill_modal
prepare_kill_modal ==
    LET filtered == KillList(processes, textarea)
    IN  /\ IF selected # None /\ selected[1] < Len(filtered)
           THEN /\ kill_modal' = TRUE
                /\ kill_pid' = Some(filtered[selected[1] + 1].pid)
                /\ captured' = Some(filtered[selected[1] + 1].pid)
           ELSE UNCHANGED <<kill_modal, kill_pid, captured>>
        /\ signals' = <<>>
        /\ UNCHANGED <<running, processes, cpu, selected, textarea, search,
                       kill_by_pid_modal, kill_by_pid_input, process_list_area,
                       details_panel>>

\* quit
quit ==
    /\ running' = FALSE
    /\ signals' = <<>>
    /\ UNCHANGED <<processes, cpu, selected, textarea, search, kill_modal,
                   kill_pid, kill_by_pid_modal, kill_by_pid_input,
                   process_list_area, details_panel, captured>>

(***************************************************************************)
(* on_key_event.                                                           *)
(***************************************************************************)
\* a handler that changes nothing
Ignore ==
    /\ signals' = <<>>
    /\ UNCHANGED <<appVars, captured>>

\* on_key_event while details_panel
KeyInDetails(key) ==
    /\ details_panel' = IF key.code = "Esc" THEN FALSE ELSE details_panel
    /\ signals' = <<>>
    /\ UNCHANGED <<running, processes, cpu, selected, textarea, search,
                   kill_modal, kill_pid, kill_by_pid_modal, kill_by_pid_input,
                   process_list_area, captured>>

\* a kill-by-pid overlay that appends every character typed
KeyInKillByPid_any_char(key) ==
    /\ CASE key.code = "Esc" ->
              /\ kill_by_pid_modal' = FALSE
              /\ kill_by_pid_input' = <<>>
              /\ signals' = <<>>
         [] key.code = "Enter" ->
              /\ \E ok \in BOOLEAN : signals' = try_kill_by_pid(ok)
              /\ kill_by_pid_modal' = FALSE
              /\ kill_by_pid_input' = <<>>
         [] key.code = "Char" ->
              /\ kill_by_pid_input' = Append(kill_by_pid_input, key.ch)
              /\ signals' = <<>>
              /\ UNCHANGED kill_by_pid_modal
         [] key.code = "Backspace" ->
              /\ kill_by_pid_input' =
                    IF Len(kill_by_pid_input) = 0 THEN <<>>
                    ELSE SubSeq(kill_by_pid_input, 1, Len(kill_by_pid_input) - 1)
              /\ signals' = <<>>
              /\ UNCHANGED kill_by_pid_modal
         [] OTHER ->
              /\ signals' = <<>>
              /\ UNCHANGED <<kill_by_pid_modal, kill_by_pid_input>>
    /\ UNCHANGED <<running, processes, cpu, selected, textarea, search,
                   kill_modal, kill_pid, process_list_area, details_panel,
                   captured>>

\* on_key_event while kill_by_pid_modal
KeyInKillByPid(key) ==
    /\ CASE key.code = "Esc" ->
              /\ kill_by_pid_modal' = FALSE
              /\ kill_by_pid_input' = <<>>
              /\ signals' = <<>>
         [] key.code = "Enter" ->
              /\ \E ok \in BOOLEAN : signals' = try_kill_by_pid(ok)
              /\ kill_by_pid_modal' = FALSE
              /\ kill_by_pid_input' = <<>>
         [] key.code = "Char" /\ IsDigit(key.ch) ->
              /\ kill_by_pid_input' = Append(kill_by_pid_input, key.ch)
              /\ signals' = <<>>
              /\ UNCHANGED kill_by_pid_modal
         [] key.code = "Backspace" ->
              /\ kill_by_pid_input' =
                    IF Len(kill_by_pid_input) = 0 THEN <<>>
                    ELSE SubSeq(kill_by_pid_input, 1, Len(kill_by_pid_input) - 1)
              /\ signals' = <<>>
              /\ UNCHANGED kill_by_pid_modal
         [] OTHER ->
              /\ signals' = <<>>
              /\ UNCHANGED <<kill_by_pid_modal, kill_by_pid_input>>
    /\ UNCHANGED <<running, processes, cpu, selected, textarea, search,
                   kill_modal, kill_pid, process_list_area, details_panel,
                   captured>>

\* a kill overlay whose Escape closes it and keeps the target
KeyInKillModal_keep_target(key) ==
    CASE key.code = "Char" /\ key.ch = "1" -> send_signal("Term")
      [] key.code = "Char" /\ key.ch = "2" -> send_signal("Kill")
      [] key.code = "Esc" ->
           /\ kill_modal' = FALSE
           /\ signals' = <<>>
           /\ UNCHANGED <<running, processes, cpu, selected, textarea, search,
                          kill_pid, captured, kill_by_pid_modal,
                          kill_by_pid_input, process_list_area, details_panel>>
      [] OTHER -> Ignore

\* on_key_event while kill_modal
KeyInKillModal(key) ==
    CASE key.code = "Char" /\ key.ch = "1" -> send_signal("Term")
      [] key.code = "Char" /\ key.ch = "2" -> send_signal("Kill")
      [] key.code = "Esc" ->
           /\ kill_modal' = FALSE
           /\ kill_pid' = None
           /\ captured' = None
           /\ signals' = <<>>
           /\ UNCHANGED <<running, processes, cpu, selected, textarea, search,
                          kill_by_pid_modal, kill_by_pid_input,
                          process_list_area, details_panel>>
      [] OTHER -> Ignore

\* TextArea::input for the keys of this model: a plain character is
\* inserted at the cursor (the end of the line), Backspace deletes the
\* character before it, Ctrl-C (copy) and function keys change nothing
TextAreaInput(line, key) ==
    CASE key.code = "Char" /\ key.mods = "NONE" -> Append(line, key.ch)
      [] key.code = "Backspace" ->
           IF Len(line) = 0 THEN line ELSE SubSeq(line, 1, Len(line) - 1)
      [] OTHER -> line

\* a search box that Escape empties
KeyInSearch_esc_clears(key) ==
    /\ IF key.code = "Esc" \/ key.code = "Enter"
       THEN /\ search' = FALSE
            /\ textarea' = IF key.code = "Esc" THEN <<>> ELSE textarea
       ELSE /\ textarea' = TextAreaInput(textarea, key)
            /\ UNCHANGED search
    /\ signals' = <<>>
    /\ UNCHANGED <<running, processes, cpu, selected, kill_modal, kill_pid,
                   kill_by_pid_modal, kill_by_pid_input, process_list_area,
                   details_panel, captured>>

\* on_key_event while search
KeyInSearch(key) ==
    /\ IF key.code = "Esc" \/ key.code = "Enter"
       THEN /\ search' = FALSE
            /\ UNCHANGED textarea
       ELSE /\ textarea' = TextAreaInput(textarea, key)
            /\ UNCHANGED search
    /\ signals' = <<>>
    /\ UNCHANGED <<running, processes, cpu, selected, kill_modal, kill_pid,
                   kill_by_pid_modal, kill_by_pid_input, process_list_area,
                   details_panel, captured>>

\* TableState::select_next
select_next(sel) ==
    IF sel = None THEN Some(0)
    ELSE IF sel[1] = UsizeMax THEN sel ELSE Some(sel[1] + 1)

\* TableState::select_previous
select_previous(sel) ==
    IF sel = None THEN Some(UsizeMax)
    ELSE IF sel[1] = 0 THEN sel ELSE Some(sel[1] - 1)

\* on_key_event with no overlay active
KeyInNormal(key) ==
    CASE key.code = "Esc" \/ (key.code = "Char" /\ key.ch = "q")
         \/ (key.mods = "CONTROL" /\ key.code = "Char" /\ key.ch \in {"c", "C"}) ->
           quit
      [] key.code = "Char" /\ key.ch = "j" ->
           /\ selected' = select_next(selected)
           /\ signals' = <<>>
           /\ UNCHANGED <<running, processes, cpu, textarea, search, kill_modal,
                          kill_pid, kill_by_pid_modal, kill_by_pid_input,
                          process_list_area, details_panel, captured>>
      [] key.code = "Char" /\ key.ch = "k" ->
           /\ selected' = select_previous(selected)
           /\ signals' = <<>>
           /\ UNCHANGED <<running, processes, cpu, textarea, search, kill_modal,
                          kill_pid, kill_by_pid_modal, kill_by_pid_input,
                          process_list_area, details_panel, captured>>
      [] key.code = "Char" /\ key.ch = "s" ->
           /\ search' = ~search
           /\ signals' = <<>>
           /\ UNCHANGED <<running, processes, cpu, selected, textarea, kill_modal,
                          kill_pid, kill_by_pid_modal, kill_by_pid_input,
                          process_list_area, details_panel, captured>>
      [] key.code = "Char" /\ key.ch = "d" -> prepare_kill_modal
      [] key.code = "Char" /\ key.ch = "p" ->
           /\ kill_by_pid_modal' = TRUE
           /\ kill_by_pid_input' = <<>>
           /\ signals' = <<>>
           /\ UNCHANGED <<running, processes, cpu, selected, textarea, search,
                          kill_modal, kill_pid, process_list_area, details_panel,
                          captured>>
      [] key.code = "Enter" ->
           /\ details_panel' = TRUE
           /\ signals' = <<>>
           /\ UNCHANGED <<running, processes, cpu, selected, textarea, search,
                          kill_modal, kill_pid, kill_by_pid_modal,
                          kill_by_pid_input, process_list_area, captured>>
      [] OTHER -> Ignore

\* on_key_event whose kill overlay lets the quit keys through
on_key_event_quit_in_modal(key) ==
    IF details_panel THEN KeyInDetails(key)
    ELSE IF kill_by_pid_modal THEN KeyInKillByPid(key)
    ELSE IF kill_modal /\ ~(key.code = "Char" /\ key.ch \in {"q", "c"})
         THEN KeyInKillModal(key)
    ELSE IF search THEN KeyInSearch(key)
    ELSE KeyInNormal(key)

\* on_key_event whose details block returns only on Escape
on_key_event_fallthrough(key) ==
    IF details_panel /\ key.code = "Esc" THEN KeyInDetails(key)
    ELSE IF kill_by_pid_modal THEN KeyInKillByPid(key)
    ELSE IF kill_modal THEN KeyInKillModal(key)
    ELSE IF search THEN KeyInSearch(key)
    ELSE KeyInNormal(key)

\* on_key_event
on_key_event(key) ==
    IF details_panel THEN KeyInDetails(key)
    ELSE IF kill_by_pid_modal THEN KeyInKillByPid(key)
    ELSE IF kill_modal THEN KeyInKillModal(key)
    ELSE IF search THEN KeyInSearch(key)
    ELSE KeyInNormal(key)

(***************************************************************************)
(* on_mouse_event.                                                         *)
(***************************************************************************)
\* the guard at the top of on_mouse_event
MouseBlocked == search \/ kill_modal \/ kill_by_pid_modal

\* ScrollUp
ScrollUp(sel) ==
    IF sel # None /\ sel[1] > 0 THEN Some(sel[1] - 1) ELSE sel

\* ScrollDown (the snapshots of this model are not empty)
ScrollDown(sel, procs) ==
    IF sel # None /\ sel[1] < Len(procs) - 1 THEN Some(sel[1] + 1) ELSE sel

\* Down(Left): the click is inside the stored area, below border and header
InRowRegion(mouse, area) ==
    /\ mouse.column >= area.x
    /\ mouse.column < area.x + area.width
    /\ mouse.row >= area.y + HeaderOffset
    /\ mouse.row < area.y + area.height

\* Down(Left)
Click(sel, mouse, area, procs, text) ==
    LET filtered    == ClickList(procs, text)
        clicked_row == mouse.row - (area.y + HeaderOffset)
    IN  IF InRowRegion(mouse, area) /\ clicked_row < Len(filtered)
        THEN Some(clicked_row) ELSE sel

\* on_mouse_event
on_mouse_event(mouse) ==
    IF MouseBlocked THEN Ignore
    ELSE /\ selected' =
               CASE mouse.kind = "ScrollUp" -> ScrollUp(selected)
                 [] mouse.kind = "ScrollDown" -> ScrollDown(selected, processes)
                 [] mouse.kind = "DownLeft" ->
                      Click(selected, mouse, process_list_area, processes, textarea)
                 [] OTHER -> selected
         /\ signals' = <<>>
         /\ UNCHANGED <<running, processes, cpu, textarea, search, kill_modal,
                        kill_pid, kill_by_pid_modal, kill_by_pid_input,
                        process_list_area, details_panel, captured>>

(***************************************************************************)
(* App::new, App::run and handle_crossterm_events.                         *)
(***************************************************************************)
\* App::new(), on a terminal of one of the given sizes
AppNew(sizes) ==
    /\ running = TRUE
    /\ processes \in Snapshots
    /\ cpu = <<>>
    /\ selected = None
    /\ textarea = <<>>
    /\ search = FALSE
    /\ kill_modal = FALSE
    /\ kill_pid = None
    /\ kill_by_pid_modal = FALSE
    /\ kill_by_pid_input = <<>>
    /\ process_list_area = Rect(0, 0, 0, 0)
    /\ details_panel = FALSE
    /\ frame_count = 0
    /\ term \in sizes
    /\ table_rows = <<>>
    /\ details_text = None
    /\ panel_text = None
    /\ signals = <<>>
    /\ captured = None
    /\ n_refresh_procs = 0
    /\ n_refresh_cpu = 0
    /\ resized = FALSE

\* main at its call of run: the terminal is initialised and reports the mouse
InitWith(sizes) ==
    /\ AppNew(sizes)
    /\ pc = "start"
    /\ raw_mode = TRUE
    /\ mouse_capture = TRUE
    /\ result = None

\* run, before the loop
Start ==
    /\ pc = "start"
    /\ running' = TRUE
    /\ selected' = Some(0)
    /\ pc' = "loop"
    /\ signals' = <<>>
    /\ UNCHANGED <<processes, cpu, textarea, search, kill_modal, kill_pid,
                   kill_by_pid_modal, kill_by_pid_input, process_list_area,
                   details_panel, frame_count, term, drawnVars, captured,
                   n_refresh_procs, n_refresh_cpu, resized, mainVars>>

\* run: the loop condition fails
Exit ==
    /\ pc = "loop"
    /\ ~running
    /\ pc' = "done"
    /\ result' = Some("Ok")
    /\ signals' = <<>>
    /\ UNCHANGED <<appVars, frame_count, term, drawnVars, captured,
                   n_refresh_procs, n_refresh_cpu, resized, raw_mode,
                   mouse_capture>>

\* a poll that waits for an event without a time limit
PollTimeout_blocks == pc = "poll" /\ UNCHANGED vars

\* handle_crossterm_events: the poll times out
PollTimeout ==
    /\ pc = "poll"
    /\ pc' = "loop"
    /\ Ignore
    /\ UNCHANGED <<frame_count, term, drawnVars, n_refresh_procs,
                   n_refresh_cpu, resized, mainVars>>

\* handle_crossterm_events: Event::Key with kind Press
KeyPress(key) ==
    /\ pc = "poll"
    /\ pc' = "loop"
    /\ on_key_event(key)
    /\ UNCHANGED <<frame_count, term, drawnVars, n_refresh_procs,
                   n_refresh_cpu, resized, mainVars>>

\* handle_crossterm_events: Event::Mouse
MouseEvent(mouse) ==
    /\ pc = "poll"
    /\ pc' = "loop"
    /\ on_mouse_event(mouse)
    /\ UNCHANGED <<frame_count, term, drawnVars, n_refresh_procs,
                   n_refresh_cpu, resized, mainVars>>

\* handle_crossterm_events: Event::Resize, after the terminal took `size`
Resize(size) ==
    /\ pc = "poll"
    /\ pc' = "loop"
    /\ term' = size
    /\ resized' = (resized \/ size.width # term.width)
    /\ Ignore
    /\ UNCHANGED <<frame_count, drawnVars, n_refresh_procs, n_refresh_cpu,
                   mainVars>>

\* handle_crossterm_events: a key release or repeat, focus, paste
OtherEvent ==
    /\ pc = "poll"
    /\ pc' = "loop"
    /\ Ignore
    /\ UNCHANGED <<frame_count, term, drawnVars, n_refresh_procs,
                   n_refresh_cpu, resized, mainVars>>

(***************************************************************************)
(* The interactive session: keys, mouse and resizes between frames.        *)
(***************************************************************************)
MaxFrames == 62

MaxTextLen == 1

MaxInputLen == 1

MaxSelected == 3

Size(w, h) == [width |-> w, height |-> h]

SessionSizes == {Size(80, 24)}

SessionKeys ==
    {KeyCode("Esc"), KeyCode("Enter"), KeyCode("Backspace"), KeyCode("F1"),
     KeyCtrl("c")}
    \cup {KeyChar(c) : c \in {"q", "j", "k", "s", "d", "p", "1", "2", "%", "B"}}

\* the characters typed into the search box
SearchChars == {"%", "B", "2"}

SessionMice ==
    {Mouse("ScrollUp", 0, 0), Mouse("ScrollDown", 0, 0), Mouse("Moved", 0, 0),
     Mouse("DownLeft", 80, 16)}
    \cup {Mouse("DownLeft", 0, r) : r \in 15..18}

\* the part of the state space explored
InBounds ==
    /\ Len(textarea') <= MaxTextLen
    /\ \A i \in 1..Len(textarea') : textarea'[i] \in SearchChars
    /\ Len(kill_by_pid_input') <= MaxInputLen
    /\ selected' = None \/ selected'[1] <= MaxSelected \/ selected'[1] = UsizeMax

Init == InitWith(SessionSizes)

Frame == frame_count < MaxFrames /\ Draw

Key == \E key \in SessionKeys : KeyPress(key) /\ InBounds

Pointer == \E mouse \in SessionMice : MouseEvent(mouse) /\ InBounds

Next == Start \/ Frame \/ Exit \/ PollTimeout \/ Key \/ Pointer \/ OtherEvent

Spec == Init /\ [][Next]_vars

(***************************************************************************)
(* The idle session: frames and resizes, no key and no mouse event.        *)
(***************************************************************************)
MaxIdleFrames == 125

IdleSizes == {Size(3, 24), Size(5, 24), Size(200, 24)}

InitIdle == InitWith(IdleSizes)

FrameIdle == frame_count < MaxIdleFrames /\ Draw

ResizedIdle == \E size \in IdleSizes : Resize(size)

NextIdle == Start \/ FrameIdle \/ PollTimeout \/ ResizedIdle

SpecIdle == InitIdle /\ [][NextIdle]_vars

(***************************************************************************)
(* The kill-by-pid dialogue: long inputs, few other keys.                  *)
(***************************************************************************)
MaxPidFrames == 13

Prefixes(s) == {SubSeq(s, 1, k) : k \in 0..Len(s)}

\* the buffers typed: up to u32::MAX, one and three past it, a leading
\* zero, an absent pid
PidInputs ==
    Prefixes(<<"4","2","9","4","9","6","7","2","9","5">>)
    \cup Prefixes(<<"4","2","9","4","9","6","7","2","9","6">>)
    \cup Prefixes(<<"4","2","9","4","9","6","7","2","9","8">>)
    \cup Prefixes(<<"0","2">>) \cup Prefixes(<<"2","9">>)

PidKeys ==
    {KeyCode("Esc"), KeyCode("Enter"), KeyCode("Backspace"), KeyChar("p"),
     KeyChar("x")}
    \cup {KeyChar(c) : c \in {"0", "2", "4", "5", "6", "7", "8", "9"}}

InitPid == InitWith(SessionSizes)

FramePid == frame_count < MaxPidFrames /\ Draw

KeyPid ==
    \E key \in PidKeys : KeyPress(key) /\ kill_by_pid_input' \in PidInputs

NextPid == Start \/ FramePid \/ PollTimeout \/ KeyPid

SpecPid == InitPid /\ [][NextPid]_vars

(***************************************************************************)
(* The modes: every key in every mode, on a terminal that shows the table  *)
(* and on one too small for it, over the first few frames.                 *)
(***************************************************************************)
MaxModeFrames == 7

\* 80x16 leaves the process table one row: it has no interior
ModeSizes == {Size(80, 24), Size(80, 16)}

ModeKeys == SessionKeys \cup {KeyChar("4"), KeyChar("z")}

\* the filter texts typed
ModeTexts == {<<>>, <<"%">>, <<"B">>, <<"q">>, <<"4">>, <<"z">>}

\* the kill-by-pid buffers explored: two ids, and a letter
ModePidInputs ==
    Prefixes(<<"2", "1">>) \cup Prefixes(<<"4">>) \cup Prefixes(<<"q">>)

InModeBounds ==
    /\ textarea' \in ModeTexts
    /\ kill_by_pid_input' \in ModePidInputs
    /\ selected' = None \/ selected'[1] <= MaxSelected \/ selected'[1] = UsizeMax

InitModes == InitWith(ModeSizes)

FrameModes == frame_count < MaxModeFrames /\ Draw

KeyModes == \E key \in ModeKeys : KeyPress(key) /\ InModeBounds

PointerModes == \E mouse \in SessionMice : MouseEvent(mouse) /\ InModeBounds

NextModes ==
    Start \/ FrameModes \/ Exit \/ PollTimeout \/ KeyModes \/ PointerModes

SpecModes == InitModes /\ [][NextModes]_vars

(***************************************************************************)
(* main: the terminal set-up around App::run, and the steps that fail.     *)
(***************************************************************************)
\* ratatui::init(): raw mode and the alternate screen
ratatui_init ==
    /\ pc = "main"
    /\ raw_mode' = TRUE
    /\ pc' = "enable"
    /\ UNCHANGED <<appVars, frame_count, term, drawnVars, obsVars,
                   mouse_capture, result>>

\* execute!(stdout(), EnableMouseCapture)?: on an error main returns there,
\* and the escape sequence may or may not have reached the terminal
EnableMouseCapture ==
    /\ pc = "enable"
    /\ \E ok \in BOOLEAN, reached \in BOOLEAN :
          IF ok
          THEN /\ reached
               /\ mouse_capture' = TRUE
               /\ pc' = "start"
               /\ UNCHANGED result
          ELSE /\ mouse_capture' = reached
               /\ result' = Some("Err")
               /\ pc' = "exit"
    /\ UNCHANGED <<appVars, frame_count, term, drawnVars, obsVars, raw_mode>>

\* run: terminal.draw(..)? returns an error, before or after it called
\* the closure; the frame is not counted
DrawError ==
    /\ pc = "loop"
    /\ running
    /\ \/ DrawClosure
       \/ UNCHANGED <<appVars, drawnVars, obsVars, term>>
    /\ pc' = "done"
    /\ result' = Some("Err")
    /\ UNCHANGED <<frame_count, raw_mode, mouse_capture>>

\* handle_crossterm_events: event::poll(..)? or event::read()? fails
PollError ==
    /\ pc = "poll"
    /\ pc' = "done"
    /\ result' = Some("Err")
    /\ Ignore
    /\ UNCHANGED <<frame_count, term, drawnVars, n_refresh_procs,
                   n_refresh_cpu, resized, raw_mode, mouse_capture>>

\* execute!(stdout(), DisableMouseCapture)?: on an error main returns there
DisableMouseCapture ==
    /\ pc = "done"
    /\ \E ok \in BOOLEAN, reached \in BOOLEAN :
          IF ok
          THEN /\ reached
               /\ mouse_capture' = FALSE
               /\ pc' = "restore"
               /\ UNCHANGED result
          ELSE /\ mouse_capture' = (mouse_capture /\ ~reached)
               /\ result' = Some("Err")
               /\ pc' = "exit"
    /\ UNCHANGED <<appVars, frame_count, term, drawnVars, obsVars, raw_mode>>

\* ratatui::restore(), then main returns the result of run
ratatui_restore ==
    /\ pc = "restore"
    /\ raw_mode' = FALSE
    /\ pc' = "exit"
    /\ UNCHANGED <<appVars, frame_count, term, drawnVars, obsVars,
                   mouse_capture, result>>

(***************************************************************************)
(* The whole program: main from ratatui::init() to its return.             *)
(***************************************************************************)
MaxMainFrames == 6

MainKeys == {KeyCode("Esc"), KeyCode("Enter"), KeyChar("q"), KeyChar("s")}

InitMain ==
    /\ AppNew(SessionSizes)
    /\ pc = "main"
    /\ raw_mode = FALSE
    /\ mouse_capture = FALSE
    /\ result = None

FrameMain == frame_count < MaxMainFrames /\ Draw

KeyMain == \E key \in MainKeys : KeyPress(key)

NextMain ==
    \/ ratatui_init \/ EnableMouseCapture \/ Start \/ FrameMain \/ DrawError
    \/ PollTimeout \/ KeyMain \/ PollError \/ Exit \/ DisableMouseCapture
    \/ ratatui_restore

SpecMain == InitMain /\ [][NextMain]_vars

(***************************************************************************)
(* The session left alone: no event ever arrives.  The statements of the   *)
(* loop follow one another, and the poll returns when its 16 ms are over.  *)
(***************************************************************************)
MaxLiveFrames == 62

InitLive == InitWith(SessionSizes)

FrameLive == frame_count < MaxLiveFrames /\ Draw

NextLive == Start \/ FrameLive \/ DrawError \/ PollTimeout \/ PollError

\* terminal.draw returns Ok: the step of FrameLive, told by the positions
\* before and after it
DrawReturns ==
    /\ pc = "loop"
    /\ running
    /\ frame_count < MaxLiveFrames
    /\ pc' = "poll"

SpecLive ==
    /\ InitLive
    /\ [][NextLive]_vars
    /\ WF_vars(Start)
    /\ WF_pc(DrawReturns)
    /\ WF_vars(PollTimeout)

(***************************************************************************)
(* Properties of the interactive session.                                  *)
(***************************************************************************)
Overlays == <<search, kill_modal, kill_by_pid_modal, details_panel>>

AnyOverlay == search \/ kill_modal \/ kill_by_pid_modal \/ details_panel

\* C1: in every reachable state at most one of the four overlay flags
\* search, kill_modal, kill_by_pid_modal and details_panel is true.
C1_AtMostOneOverlay ==
    Cardinality({i \in 1..4 : Overlays[i]}) <= 1

\* an overlay opened after another one was used and closed
C1_Witness ==
    /\ details_panel
    /\ Len(textarea) > 0
    /\ Cardinality({i \in 1..4 : Overlays[i]}) = 1

\* C2: whenever the kill overlay opens, the captured target is the process
\* of the row the table drew at the Selection index.
C2_KillCapturesDrawnRow ==
    [][ (~kill_modal /\ kill_modal') =>
            /\ selected # None
            /\ selected[1] < Len(table_rows)
            /\ kill_pid' = Some(table_rows[selected[1] + 1]) ]_vars

\* C3: after every handled event the Selection is None or an index below
\* the length of the projection of the current snapshot under the current
\* filter.
C3_SelectionInRange ==
    (pc = "loop" /\ frame_count > 0) =>
        \/ selected = None
        \/ selected[1] < Len(RenderList(processes, textarea))

\* C4: a signal delivered from the kill overlay goes to the process id
\* captured when the overlay was opened, whatever frames came in between.
C4_SignalGoesToCaptured ==
    [][ (kill_modal /\ signals' # <<>>) =>
            /\ captured # None
            /\ \A i \in 1..Len(signals') : signals'[i].pid = captured[1] ]_vars

\* a graceful signal was delivered to a process that is no longer the one
\* the Selection index resolves to
C4_Witness ==
    /\ Len(signals) = 1
    /\ signals[1].sig = "Term"
    /\ frame_count > RefreshPeriod
    /\ LET filtered == KillList(processes, textarea)
       IN  /\ selected # None
           /\ selected[1] < Len(filtered)
           /\ filtered[selected[1] + 1].pid # signals[1].pid

\* C5: in the kill overlay "1" (resp. "2") delivers the graceful (resp.
\* forceful) signal to the pending target exactly once when that id is in
\* the snapshot and not at all otherwise, and in both cases closes the
\* overlay and clears the target.
C5_ConfirmDeliversOnce ==
    [][ \A k \in {"1", "2"} :
          (kill_modal /\ ~details_panel /\ ~kill_by_pid_modal
             /\ KeyPress(KeyChar(k))) =>
            /\ IF kill_pid # None
                  /\ \E i \in 1..Len(processes) : processes[i].pid = kill_pid[1]
               THEN /\ Len(signals') = 1
                    /\ signals'[1].pid = kill_pid[1]
                    /\ signals'[1].sig = (IF k = "1" THEN "Term" ELSE "Kill")
               ELSE signals' = <<>>
            /\ ~kill_modal'
            /\ kill_pid' = None
            /\ ~search' /\ ~kill_by_pid_modal' /\ ~details_panel' ]_vars

\* a delivery that failed, after which the session is back in Normal mode
C5_Witness ==
    /\ Len(signals) = 1
    /\ signals[1].sig = "Term"
    /\ ~signals[1].ok
    /\ ~AnyOverlay
    /\ kill_pid = None

\* a digit string without its leading zeros
Canonical(s) ==
    LET nz == {i \in 1..Len(s) : s[i] # "0"}
    IN  IF nz = {} THEN <<"0">>
        ELSE SubSeq(s, CHOOSE i \in nz : \A j \in nz : i <= j, Len(s))

\* the processes of the snapshot whose id the buffer writes in decimal
NamedBy(buffer) ==
    {i \in 1..Len(processes) :
        /\ Len(buffer) > 0
        /\ \A j \in 1..Len(buffer) : IsDigit(buffer[j])
        /\ Canonical(buffer) = PidToString(processes[i].pid)}

\* C6: in the kill-by-pid overlay Enter always ends in Normal mode with an
\* empty buffer; it delivers exactly one forceful signal, with no
\* confirmation, when the buffer is the decimal writing of the id of a
\* process of the snapshot, and no signal otherwise (empty buffer, value out
\* of the range of u32, id not in the snapshot).
C6_EnterKillsByPid ==
    [][ (kill_by_pid_modal /\ ~details_panel /\ KeyPress(KeyCode("Enter"))) =>
            /\ ~AnyOverlay'
            /\ kill_by_pid_input' = <<>>
            /\ kill_pid' = None
            /\ IF NamedBy(kill_by_pid_input) # {}
               THEN /\ Len(signals') = 1
                    /\ signals'[1].sig = "Kill"
                    /\ \E i \in NamedBy(kill_by_pid_input) :
                          signals'[1].pid = processes[i].pid
               ELSE signals' = <<>> ]_vars

\* Enter on a buffer that names process 2 delivered one forceful signal
C6_Witness ==
    /\ Len(signals) = 1
    /\ signals[1].pid = 2
    /\ signals[1].sig = "Kill"
    /\ ~AnyOverlay
    /\ kill_by_pid_input = <<>>
    /\ pc = "loop"

\* C7: a mouse event received while any overlay is active leaves the
\* session state unchanged.
C7_MouseIgnoredInOverlay ==
    [][ (AnyOverlay /\ \E mouse \in SessionMice : MouseEvent(mouse)) =>
            UNCHANGED appVars ]_vars

\* C8: after a frame, the details pane and the details overlay describe the
\* process of the table row at the Selection index.
C8_DetailsDescribeSelectedRow ==
    (pc = "poll" /\ selected # None /\ selected[1] < Len(table_rows)) =>
        /\ details_text = Some(table_rows[selected[1] + 1])
        /\ details_panel => panel_text = Some(table_rows[selected[1] + 1])

(***************************************************************************)
(* Properties of the frame cadence and the CPU history.                    *)
(***************************************************************************)
\* C9 as stated: after the first 61 frames the process table was refreshed
\* exactly once and the CPU on every frame.
C9_OneRefreshIn61Frames ==
    frame_count = RefreshPeriod + 1 =>
        n_refresh_procs = 1 /\ n_refresh_cpu = RefreshPeriod + 1

\* C9 as amended: the process table is refreshed on the frames whose count
\* is a multiple of 60, the first frame included, so exactly once over the
\* first 60 frames and exactly twice over the first 61; the CPU is
\* refreshed on every frame.
C9_RefreshCadence ==
    /\ n_refresh_procs = (frame_count + RefreshPeriod - 1) \div RefreshPeriod
    /\ n_refresh_cpu = frame_count
    /\ frame_count = RefreshPeriod => n_refresh_procs = 1
    /\ frame_count = RefreshPeriod + 1 => n_refresh_procs = 2

\* 61 frames were rendered
C9_Witness ==
    /\ frame_count = RefreshPeriod + 1
    /\ n_refresh_procs = 2
    /\ n_refresh_cpu = RefreshPeriod + 1
    /\ pc = "poll"

ChartWidth == Min(term.width, MaxChartPoints)

\* the history holds the samples of the last Len(cpu) frames, in order
MostRecentInOrder ==
    \A i \in 1..Len(cpu) : cpu[i][1] = frame_count - Len(cpu) + i - 1

\* C10 as stated: after every frame the history is at most W long, holds
\* exactly the W most recent samples in order once more than W samples were
\* recorded, and is min(n, W) long after n frames at constant width.
C10_ExactlyWMostRecent ==
    pc = "poll" =>
        /\ Len(cpu) <= ChartWidth
        /\ frame_count > ChartWidth => (Len(cpu) = ChartWidth /\ MostRecentInOrder)
        /\ ~resized => Len(cpu) = Min(frame_count, ChartWidth)

\* C10 as amended: after every frame the history is at most W long and
\* holds the most recent samples in order; at constant width it is
\* min(n, W) long after n frames, so exactly the W most recent samples
\* once more than W were recorded.
C10_CpuHistoryBounded ==
    pc = "poll" =>
        /\ Len(cpu) <= ChartWidth
        /\ MostRecentInOrder
        /\ ~resized => Len(cpu) = Min(frame_count, ChartWidth)

\* the cap of 120 points is reached on a wide chart and the oldest samples
\* are gone
C10_Witness ==
    /\ pc = "poll"
    /\ ~resized
    /\ term.width > MaxChartPoints
    /\ frame_count > MaxChartPoints
    /\ Len(cpu) = MaxChartPoints
    /\ cpu[1][1] = frame_count - MaxChartPoints

(***************************************************************************)
(* Properties of the modes.                                                *)
(***************************************************************************)
QuitKeys == {KeyChar("q"), KeyCode("Esc"), KeyCtrl("c")}

\* C12: the running flag becomes false by, and only by, a quit key (q, Esc
\* or Ctrl-C) handled with no overlay active; once it is false the next
\* step of the loop is its exit, with no frame rendered and no event
\* handled; with an overlay active neither q nor Ctrl-C ends the session.
C12_QuitOnlyInNormal ==
    [][ /\ (running /\ ~running') =>
               (~AnyOverlay /\ \E key \in QuitKeys : KeyPress(key))
        /\ \A key \in QuitKeys : (~AnyOverlay /\ KeyPress(key)) => ~running'
        /\ ~running =>
               (pc = "loop" /\ pc' = "done"
                  /\ UNCHANGED <<appVars, frame_count, drawnVars>>)
        /\ (AnyOverlay /\ (KeyPress(KeyChar("q")) \/ KeyPress(KeyCtrl("c")))) =>
               running' ]_vars

\* the loop has exited after q was typed into the search box and, later,
\* pressed with no overlay active
C12_Witness ==
    /\ pc = "done"
    /\ ~running
    /\ textarea = <<"q">>
    /\ ~AnyOverlay

\* the position of a process in the snapshot's iteration order
SnapshotIndex(p) == CHOOSE i \in 1..Len(processes) : processes[i] = p

\* C13: after every frame the table shows the projection of the snapshot
\* under the filter, in which no row precedes a row of strictly greater CPU
\* usage and rows of equal CPU usage keep the snapshot's iteration order.
C13_DrawnSortedByCpu ==
    pc = "poll" =>
        LET rows == RenderList(processes, textarea)
        IN  /\ table_rows = TableDrawn(rows, process_list_area)
            /\ \A i, j \in 1..Len(rows) :
                  i < j =>
                    /\ rows[i].cpu >= rows[j].cpu
                    /\ rows[i].cpu = rows[j].cpu =>
                          SnapshotIndex(rows[i]) < SnapshotIndex(rows[j])

\* the text occurs in the field when letter case is ignored
OccursIn(text, field) ==
    \E a, b \in 0..Len(field) :
        /\ b - a = Len(text)
        /\ \A k \in 1..Len(text) :
              ToLowerChar(field[a + k]) = ToLowerChar(text[k])

\* the table has room for rows
TableShown == process_list_area.width > 2 /\ process_list_area.height > 2

C15_InvalidSelectionIsNoOp ==
    [][ (~AnyOverlay /\ KeyPress(KeyChar("d"))) =>
            /\ (selected = None
                  \/ selected[1] >= Len(RenderList(processes, textarea))) =>
                   (UNCHANGED appVars /\ signals' = <<>>)
            /\ kill_modal' => kill_pid' # None ]_vars

\* C16: Escape pressed while an overlay is active closes it in that step,
\* so that no overlay is active; it sends no signal, leaves the session
\* running, leaves no pending kill target and an empty kill-by-pid buffer,
\* and does not change the filter text (nor the Selection).
C16_EscapeReturnsToNormal ==
    [][ (AnyOverlay /\ KeyPress(KeyCode("Esc"))) =>
            /\ ~AnyOverlay'
            /\ signals' = <<>>
            /\ running'
            /\ kill_pid' = None
            /\ kill_by_pid_input' = <<>>
            /\ textarea' = textarea
            /\ selected' = selected ]_vars

\* the details overlay was drawn and has been closed (only Escape closes
\* it), with a filter typed and left by an earlier search
C16_Witness ==
    /\ pc = "loop"
    /\ running
    /\ ~AnyOverlay
    /\ panel_text # None
    /\ textarea # <<>>

\* the table row drawn at a screen position: the rows start below the top
\* border and the header and stop above the bottom border
RowAt(mouse) ==
    LET area == process_list_area
    IN  IF /\ mouse.column >= area.x
           /\ mouse.column < area.x + area.width
           /\ mouse.row >= area.y + HeaderOffset
           /\ mouse.row < area.y + area.height - 1
        THEN Some(mouse.row - (area.y + HeaderOffset))
        ELSE None

\* C18: with no overlay active, a primary-button click on the screen row of
\* a drawn table row sets the Selection to the index of that row; a click
\* elsewhere (outside the row region, or below the last drawn row) leaves
\* the Selection unchanged.
C18_ClickSelectsDrawnRow ==
    [][ \A mouse \in SessionMice :
          (mouse.kind = "DownLeft" /\ ~AnyOverlay /\ MouseEvent(mouse)) =>
             IF RowAt(mouse) # None /\ RowAt(mouse)[1] < Len(table_rows)
             THEN selected' = RowAt(mouse)
             ELSE selected' = selected ]_vars

\* C19: with no overlay active and a Selection inside the projection of
\* the snapshot under the filter, a scroll-down event moves the Selection
\* one row down, except on the last row of the projection where it stays;
\* a scroll-up event moves it one row up, except on row 0 where it stays.
C19_ScrollClampsToProjection ==
    [][ LET len == Len(RenderList(processes, textarea))
        IN  (~AnyOverlay /\ selected # None /\ selected[1] < len) =>
              /\ MouseEvent(Mouse("ScrollDown", 0, 0)) =>
                    selected' = IF selected[1] = len - 1 THEN selected
                                ELSE Some(selected[1] + 1)
              /\ MouseEvent(Mouse("ScrollUp", 0, 0)) =>
                    selected' = IF selected[1] = 0 THEN selected
                                ELSE Some(selected[1] - 1) ]_vars

\* C20: the kill-by-pid buffer holds decimal digits only; while its
\* overlay is active a digit key appends that digit, Backspace removes the
\* last character (nothing from an empty buffer), and every other key but
\* Enter and Escape leaves the buffer and the overlay as they are; while
\* the overlay is not active no event changes the buffer.
C20_PidInputDigitsOnly ==
    [][ /\ \A i \in 1..Len(kill_by_pid_input') : IsDigit(kill_by_pid_input'[i])
        /\ ~kill_by_pid_modal => kill_by_pid_input' = kill_by_pid_input
        /\ \A key \in ModeKeys :
              (kill_by_pid_modal /\ ~details_panel /\ KeyPress(key)) =>
                CASE key.code = "Char" /\ IsDigit(key.ch) ->
                       /\ kill_by_pid_input' = Append(kill_by_pid_input, key.ch)
                       /\ kill_by_pid_modal'
                  [] key.code = "Backspace" ->
                       /\ kill_by_pid_input' =
                             SubSeq(kill_by_pid_input, 1,
                                    Len(kill_by_pid_input) - 1)
                       /\ kill_by_pid_modal'
                  [] key.code \in {"Enter", "Esc"} -> TRUE
                  [] OTHER ->
                       /\ kill_by_pid_input' = kill_by_pid_input
                       /\ kill_by_pid_modal' ]_vars

\* two digits were typed into the buffer of the overlay
C20_Witness ==
    /\ kill_by_pid_modal
    /\ kill_by_pid_input = <<"2", "1">>
    /\ pc = "loop"

\* C21: in every reachable state the kill overlay is active if and only if
\* a pending kill target is set.
C21_KillModalIffTarget ==
    kill_modal <=> (kill_pid # None)

\* the kill overlay was drawn with its target, under a filter
C21_Witness ==
    /\ pc = "poll"
    /\ kill_modal
    /\ kill_pid # None
    /\ textarea # <<>>

\* C22: a step delivers a signal only if it handles "1" or "2" in the kill
\* overlay or Enter in the kill-by-pid overlay; no other key, no mouse
\* event and no frame does.  The graceful signal is delivered only by "1"
\* in the kill overlay, the forceful one only by "2" there and by Enter in
\* the kill-by-pid overlay.
C22_SignalsOnlyFromKillPaths ==
    [][ signals' # <<>> =>
          LET confirm(k) == /\ kill_modal
                            /\ ~details_panel
                            /\ ~kill_by_pid_modal
                            /\ KeyPress(KeyChar(k))
              enter      == /\ kill_by_pid_modal
                            /\ ~details_panel
                            /\ KeyPress(KeyCode("Enter"))
          IN  /\ confirm("1") \/ confirm("2") \/ enter
              /\ \A i \in 1..Len(signals') :
                    /\ signals'[i].sig = "Term" => confirm("1")
                    /\ signals'[i].sig = "Kill" => (confirm("2") \/ enter) ]_vars

\* the graceful signal was delivered and accepted, under a filter
C22_Witness ==
    /\ pc = "loop"
    /\ Len(signals) = 1
    /\ signals[1].sig = "Term"
    /\ signals[1].ok
    /\ textarea # <<>>

\* the search box is the overlay that receives the keys
Searching == search /\ ~details_panel /\ ~kill_by_pid_modal /\ ~kill_modal

\* C23: the filter text changes only in a step that handles a key other
\* than Escape and Enter while the search box is active: no key in another
\* mode, no mouse event and no frame changes it; Escape and Enter in the
\* search box close it and keep the text.
C23_FilterChangesOnlyInSearch ==
    [][ /\ textarea' # textarea =>
              /\ Searching
              /\ \E key \in ModeKeys :
                    key.code \notin {"Esc", "Enter"} /\ KeyPress(key)
        /\ \A code \in {"Esc", "Enter"} :
              (Searching /\ KeyPress(KeyCode(code))) =>
                 (textarea' = textarea /\ ~search') ]_vars

\* a text typed in the search box is still the filter of a frame drawn
\* after the box was closed
C23_Witness ==
    /\ pc = "poll"
    /\ ~AnyOverlay
    /\ textarea # <<>>
    /\ TableShown
    /\ table_rows = Pids(RenderList(processes, textarea))

(***************************************************************************)
(* Properties of the session left alone.                                   *)
(***************************************************************************)
\* the history ends with the sample of the frame just rendered, and the
\* samples it holds are those of consecutive frames
OneSamplePerFrame ==
    /\ Len(cpu) >= 1
    /\ cpu[Len(cpu)][1] = frame_count - 1
    /\ \A i \in 1..(Len(cpu) - 1) : cpu[i + 1][1] = cpu[i][1] + 1

\* C17: with no input, every wait of the poll ends and the loop comes back
\* to its head; frames keep being rendered, up to the last one explored,
\* unless run returns an error; each rendered frame appended exactly one
\* CPU sample, on the frames that refresh the process table and on the
\* others.
C17_LoopStaysLive ==
    /\ [](pc = "poll" => OneSamplePerFrame)
    /\ (pc = "poll") ~> (pc \in {"loop", "done"})
    /\ <>(frame_count = MaxLiveFrames \/ pc = "done")

\* 62 frames were rendered with no input, two of them refreshing the
\* process table
C17_Witness ==
    /\ frame_count = RefreshPeriod + 2
    /\ n_refresh_procs = 2
    /\ pc = "poll"
    /\ running
    /\ Len(cpu) = RefreshPeriod + 2

(***************************************************************************)
(* Properties of main.                                                     *)
(***************************************************************************)
\* C11: whenever main has returned after the terminal was initialised, the
\* terminal mode is restored and the mouse capture is disabled.
C11_RestoredOnEveryExit ==
    pc = "exit" => (~raw_mode /\ ~mouse_capture)

=============================================================================
